---- MODULE Spec2Model ----
(***************************************************************************)
(* Model of the parallel test execution engine of mtw-e2e-runner           *)
(* (src/src/runner.js: runTestsParallel, worker, runTest) together with    *)
(* the pool client it calls (connectToPool).                               *)
(*                                                                         *)
(* JavaScript runs one callback at a time: a step of the model is the code *)
(* that runs between two awaits.  A timer callback (the per-test timeout)  *)
(* is a step of its own and can fire between any two steps.                *)
(*                                                                         *)
(* An optional property of a JavaScript object is a field that is or is    *)
(* not in the DOMAIN of the record: (x.f ?? d) reads the field when it is  *)
(* there and d otherwise.                                                  *)
(***************************************************************************)
EXTENDS FiniteSets, Integers, Sequences, TLC

VARIABLES
    tests,          \* the list handed to runTestsParallel (argument `tests`)
    config,         \* argument `config`
    suiteHooks,     \* argument `suiteHooks`
    pc,             \* where runTestsParallel itself is suspended
    hookBrowser,    \* `browser` of the beforeAll / afterAll block
    hookRuns,       \* how often each suite hook sequence was executed
    hookError,      \* `error` of the catch block of each suite hook block
    queue,          \* `queue`: names of the tests still to run
    results,        \* `results`
    activeCount,    \* `activeCount`
    workers,        \* one record per invocation of `worker`
    attempts,       \* one record per invocation of runTest: attempts[t][k]
    sessions,       \* the invocations of runTest that hold a connected browser
    thrown,         \* the error runTestsParallel rejected with
    timeouts,       \* number of attempts ended by Timeout
    rt,             \* one worker and its runTest seen await by await
    dashboard       \* the dashboard server: currentRun and its POST /api/run

inputs == <<tests, config, suiteHooks>>

main == <<pc, hookBrowser, hookRuns, hookError, thrown>>

(* the variables that runTestsParallel and its workers leave alone         *)
unit == <<rt, dashboard>>

vars == <<inputs, main, queue, results, activeCount, workers, attempts,
          sessions, timeouts, rt, dashboard>>

-----------------------------------------------------------------------------
(* Bounds of the model                                                     *)

MaxTests == 3           \* length of `tests` is 0..MaxTests
MaxRetries == 2         \* retry counts are 0..MaxRetries
MaxConcurrency == 2     \* config.concurrency is 1..MaxConcurrency
MaxActions == 1         \* every test has MaxActions actions
MaxTimeouts == 1        \* at most MaxTimeouts attempts of a run time out
MaxOverrides == 1       \* the first MaxOverrides tests may set retries/timeout

(* Defaults written in the code                                            *)

DefaultConcurrency == 3        \* config.concurrency || 3
DefaultRetries == 0            \* test.retries ?? config.retries ?? 0
DefaultTestTimeout == 60000    \* test.timeout ?? config.testTimeout ?? 60000

-----------------------------------------------------------------------------
(* JavaScript values                                                       *)

Empty == [x \in {} |-> TRUE]            \* an object without properties

Has(obj, f) == f \in DOMAIN obj

NoError == <<"null", 0>>                \* result.error = null

TimeoutError(ms) == <<"Test timed out after", ms>>

ConnectError == <<"Failed to connect to pool", 0>>

ActionError(i) == <<"action", i>>       \* action i raised (retries exhausted)

HookError == <<"hook", 0>>              \* a beforeAll / afterAll action raised

NoResult == [name |-> 0, success |-> FALSE, error |-> NoError,
             actions |-> <<>>, attempt |-> 0, maxAttempts |-> 0]

(* attempts[t][k]: phase is where the invocation is suspended, actions is  *)
(* its `result.actions` until it returns the result; race is how the       *)
(* Promise.race of the worker was settled for it, and afterRace says that  *)
(* the invocation went on executing after the timer had settled the race   *)
NoAttempt == [phase |-> "none", actions |-> <<>>, race |-> "pending",
              afterRace |-> FALSE]

(* rt outside the specification that follows one worker await by await     *)
NoRun == [at |-> "none"]

(* the dashboard outside the specification of the dashboard server        *)
NoDashboard == [currentRun |-> "none"]

NoHooks == [beforeAll |-> <<>>, afterAll |-> <<>>,
            beforeEach |-> <<>>, afterEach |-> <<>>]

-----------------------------------------------------------------------------
(* Pure functions of runner.js                                             *)

Undefined == [undefined |-> TRUE]       \* a missing argument

(* faulty variant: the suite's sequence is appended to the global one      *)
HookKey_Concat(suite, base, k) ==
    (IF Has(base, k) THEN base[k] ELSE <<>>) \o
    (IF Has(suite, k) THEN suite[k] ELSE <<>>)

(* suiteHooks.k?.length ? suiteHooks.k : base.k || []                      *)
HookKey(suite, base, k) ==
    IF Has(suite, k) /\ Len(suite[k]) > 0 THEN suite[k]
    ELSE IF Has(base, k) THEN base[k] ELSE <<>>

mergeHooks(configHooks, suite) ==
    LET base == IF configHooks = Undefined THEN NoHooks ELSE configHooks
    IN  IF suite = Undefined THEN base
        ELSE [k \in {"beforeAll", "afterAll", "beforeEach", "afterEach"} |->
                 HookKey(suite, base, k)]

ConfigHooks(cfg) == IF Has(cfg, "hooks") THEN cfg.hooks ELSE Undefined

hooks == mergeHooks(ConfigHooks(config), suiteHooks)

concurrency ==
    IF Has(config, "concurrency") /\ config.concurrency # 0
    THEN config.concurrency ELSE DefaultConcurrency

(* faulty variant: || in place of ??, so that retries: 0 falls through     *)
maxAttempts_Or(test) ==
    (IF Has(test, "retries") /\ test.retries # 0 THEN test.retries
     ELSE IF Has(config, "retries") /\ config.retries # 0
          THEN config.retries
     ELSE DefaultRetries) + 1

maxAttempts(test) ==
    (IF Has(test, "retries") THEN test.retries
     ELSE IF Has(config, "retries") THEN config.retries
     ELSE DefaultRetries) + 1

testTimeout(test) ==
    IF Has(test, "timeout") THEN test.timeout
    ELSE IF Has(config, "testTimeout") THEN config.testTimeout
    ELSE DefaultTestTimeout

IsSerial(test) == Has(test, "serial") /\ test.serial

RECURSIVE Filter(_, _)
Filter(seq, serial) ==
    IF seq = <<>> THEN <<>>
    ELSE IF IsSerial(Head(seq)) = serial
         THEN <<Head(seq).name>> \o Filter(Tail(seq), serial)
         ELSE Filter(Tail(seq), serial)

(* faulty variant: the queue is seeded with every test, serial ones included *)
parallelTests_Unfiltered == [i \in 1..Len(tests) |-> tests[i].name]

parallelTests == Filter(tests, FALSE)

serialTests == Filter(tests, TRUE)

Min(a, b) == IF a < b THEN a ELSE b

-----------------------------------------------------------------------------
(* Inputs                                                                  *)

ActionList == [i \in 1..MaxActions |-> [type |-> "click"]]

SerialOptions == {Empty, "serial" :> TRUE}

OverrideOptions ==
    {Empty, "timeout" :> 1000} \cup {"retries" :> r : r \in 0..MaxRetries}

TestSpecs(i) ==
    {[name |-> i, actions |-> ActionList] @@ s @@ o :
        s \in SerialOptions,
        o \in IF i <= MaxOverrides THEN OverrideOptions ELSE {Empty}}

TestLists ==
    UNION {{ts \in [1..n -> UNION {TestSpecs(i) : i \in 1..n}] :
                \A i \in 1..n : ts[i].name = i} : n \in 0..MaxTests}

GlobalHooks == [beforeAll |-> <<[type |-> "goto"]>>,
                afterAll |-> <<[type |-> "screenshot"]>>]

SuiteHooks == [beforeAll |-> <<[type |-> "wait"]>>, afterAll |-> <<>>]

(* a config that sets nothing but the concurrency, run without suite hooks, *)
(* and a config that sets everything, run with suite hooks                 *)
Inputs ==
    {<<[concurrency |-> c], Empty>> : c \in 1..MaxConcurrency}
    \cup {<<[concurrency |-> c, retries |-> 1,
             testTimeout |-> 5000, hooks |-> GlobalHooks], SuiteHooks>> :
             c \in 1..MaxConcurrency}

Names == 1..MaxTests

Attempts == 1..(MaxRetries + 1)

Workers == 0..MaxConcurrency     \* 0 is the worker() of the serial phase

IdleWorker == [st |-> "idle", test |-> 0, attempt |-> 0, maxAttempts |-> 0]

Init ==
    /\ tests \in TestLists
    /\ \E in \in Inputs : config = in[1] /\ suiteHooks = in[2]
    /\ pc = "start"
    /\ hookBrowser = "null"
    /\ hookRuns = [k \in {"beforeAll", "afterAll"} |-> 0]
    /\ hookError = [k \in {"beforeAll", "afterAll"} |-> NoError]
    /\ queue = <<>>
    /\ results = <<>>
    /\ activeCount = 0
    /\ workers = [w \in Workers |-> IdleWorker]
    /\ attempts = [t \in Names |-> [k \in Attempts |-> NoAttempt]]
    /\ sessions = {}
    /\ thrown = NoError
    /\ timeouts = 0
    /\ rt = NoRun
    /\ dashboard = NoDashboard

-----------------------------------------------------------------------------
(* worker: the code from the settling of Promise.race to the next await    *)

Racing(w, t, k) ==
    /\ workers[w].st = "racing"
    /\ workers[w].test = t
    /\ workers[w].attempt = k

(* faulty variant: the loop stops one test early                           *)
LoopCond_OffByOne(q) == Len(q) > 1

(* while (queue.length > 0)                                                *)
LoopCond(q) == Len(q) > 0

(* faulty variant: the loop does not break on success                      *)
Finished_NoBreak(res, k, mx) == k = mx

(* faulty variant: the loop breaks after the first attempt                 *)
Finished_FirstAttempt(res, k, mx) == TRUE

(* if (result.success || attempt === maxAttempts) break                    *)
Finished(res, k, mx) == res.success \/ k = mx

(* faulty variant: the catch block leaves success at true                  *)
TimeoutResult_Success(t) ==
    [NoResult EXCEPT !.name = t, !.success = TRUE,
                     !.error = TimeoutError(testTimeout(tests[t]))]

(* the result object built in the catch block of the attempt loop          *)
TimeoutResult(t) ==
    [NoResult EXCEPT !.name = t,
                     !.error = TimeoutError(testTimeout(tests[t]))]

(* runTest(test, ...) is called and runs up to its first await, which is   *)
(* in waitForSlot                                                          *)
StartAttempt(att, t, k) ==
    [att EXCEPT ![t][k] = [NoAttempt EXCEPT !.phase = "slot"]]

(* faulty variant: queue.pop() in place of queue.shift()                   *)
Settle_Pop(w, res, att) ==
    LET k == workers[w].attempt
        mx == workers[w].maxAttempts
        tagged == [res EXCEPT !.attempt = k, !.maxAttempts = mx]
    IN  /\ IF Finished(res, k, mx)
           THEN /\ results' = Append(results, tagged)
                /\ IF LoopCond(queue)
                   THEN LET n == queue[Len(queue)]
                        IN  /\ queue' = SubSeq(queue, 1, Len(queue) - 1)
                            /\ activeCount' = (activeCount - 1) + 1
                            /\ workers' = [workers EXCEPT ![w] =
                                   [st |-> "racing", test |-> n, attempt |-> 1,
                                    maxAttempts |-> maxAttempts(tests[n])]]
                            /\ attempts' = StartAttempt(att, n, 1)
                   ELSE /\ queue' = queue
                        /\ activeCount' = activeCount - 1
                        /\ workers' = [workers EXCEPT ![w].st = "done"]
                        /\ attempts' = att
           ELSE /\ workers' = [workers EXCEPT ![w].st = "sleeping"]
                /\ attempts' = att
                /\ UNCHANGED <<queue, results, activeCount>>
        /\ UNCHANGED <<unit, inputs, main>>

(* the worker has a result for the attempt it was racing: tag it, then     *)
(* retry, or record it and take the next test of the queue                 *)
Settle(w, res, att) ==
    LET k == workers[w].attempt
        mx == workers[w].maxAttempts
        tagged == [res EXCEPT !.attempt = k, !.maxAttempts = mx]
    IN  /\ IF Finished(res, k, mx)
           THEN /\ results' = Append(results, tagged)
                /\ IF LoopCond(queue)
                   THEN LET n == Head(queue)
                        IN  /\ queue' = Tail(queue)
                            /\ activeCount' = (activeCount - 1) + 1
                            /\ workers' = [workers EXCEPT ![w] =
                                   [st |-> "racing", test |-> n, attempt |-> 1,
                                    maxAttempts |-> maxAttempts(tests[n])]]
                            /\ attempts' = StartAttempt(att, n, 1)
                   ELSE /\ queue' = queue
                        /\ activeCount' = activeCount - 1
                        /\ workers' = [workers EXCEPT ![w].st = "done"]
                        /\ attempts' = att
           ELSE /\ workers' = [workers EXCEPT ![w].st = "sleeping"]
                /\ attempts' = att
                /\ UNCHANGED <<queue, results, activeCount>>
        /\ UNCHANGED <<unit, inputs, main>>

(* faulty variant: the timer is not heard before connectToPool has settled *)
Timeout_AfterConnect(w) ==
    /\ workers[w].st = "racing"
    /\ timeouts < MaxTimeouts
    /\ timeouts' = timeouts + 1
    /\ LET t == workers[w].test
           k == workers[w].attempt
       IN  /\ sessions' = sessions \cup {<<t, k>>}
           /\ Settle(w, TimeoutResult(t),
                     [attempts EXCEPT ![t][k].race = "timeout",
                                      ![t][k].phase = "run"])

(* the timer of the attempt fires while runTest is still pending: the race *)
(* rejects and the worker builds the result in its catch block; nothing is *)
(* done to the pending runTest                                             *)
Timeout(w) ==
    /\ workers[w].st = "racing"
    /\ timeouts < MaxTimeouts
    /\ timeouts' = timeouts + 1
    /\ UNCHANGED sessions
    /\ LET t == workers[w].test
           k == workers[w].attempt
       IN  Settle(w, TimeoutResult(t),
                  [attempts EXCEPT ![t][k].race = "timeout"])

(* sleep(config.retryDelay) is over: next iteration of the attempt loop    *)
RetryWake(w) ==
    /\ workers[w].st = "sleeping"
    /\ workers' = [workers EXCEPT ![w].st = "racing",
                                  ![w].attempt = workers[w].attempt + 1]
    /\ attempts' = StartAttempt(attempts, workers[w].test,
                                workers[w].attempt + 1)
    /\ UNCHANGED <<unit, inputs, main, queue, results, activeCount, sessions,
                   timeouts>>

-----------------------------------------------------------------------------
(* runTest.  Its steps here are: connectToPool settles; each action of the *)
(* test settles.  Page setup and the beforeEach hook are in the step of    *)
(* the first action, the afterEach hook and the finally block in the step  *)
(* of the last action or of the failing one.                               *)

(* a step of an invocation whose race the timer has settled                *)
Step(a) ==
    IF a.race = "timeout" THEN [a EXCEPT !.afterRace = TRUE] ELSE a

(* the finally block disconnects the browser and runTest returns `res`;    *)
(* the worker gets it when it is still awaiting the race                   *)
Return(t, k, a, res) ==
    LET b == [Step(a) EXCEPT !.phase = "ended", !.actions = <<>>,
                  !.race = IF a.race = "pending"
                           THEN (IF res.success THEN "pass" ELSE "fail")
                           ELSE a.race]
        att == [attempts EXCEPT ![t][k] = b]
    IN  IF \E w \in Workers : Racing(w, t, k)
        THEN /\ Settle(CHOOSE w \in Workers : Racing(w, t, k), res, att)
             /\ sessions' = sessions \ {<<t, k>>}
             /\ UNCHANGED timeouts
        ELSE /\ attempts' = att
             /\ sessions' = sessions \ {<<t, k>>}
             /\ UNCHANGED <<unit, inputs, main, queue, results, activeCount,
                            workers, timeouts>>

Continue(t, k, a) ==
    /\ attempts' = [attempts EXCEPT ![t][k] = Step(a)]
    /\ UNCHANGED <<unit, inputs, main, queue, results, activeCount, workers,
                   sessions, timeouts>>

Result(t, ok, err, acts) ==
    [NoResult EXCEPT !.name = t, !.success = ok, !.error = err,
                     !.actions = acts]

(* waitForSlot has returned and connectToPool resolves                     *)
Connect(t, k) ==
    /\ attempts[t][k].phase = "slot"
    /\ attempts' = [attempts EXCEPT ![t][k] =
                        [Step(attempts[t][k]) EXCEPT !.phase = "run"]]
    /\ sessions' = sessions \cup {<<t, k>>}
    /\ UNCHANGED <<unit, inputs, main, queue, results, activeCount, workers,
                   timeouts>>

(* faulty variant: the rejection of connectToPool is not caught            *)
ConnectFail_Escapes(t, k) ==
    /\ attempts[t][k].phase = "slot"
    /\ attempts' = [attempts EXCEPT ![t][k].phase = "ended"]
    /\ thrown' = ConnectError
    /\ pc' = "rejected"
    /\ UNCHANGED <<unit, inputs, hookBrowser, hookRuns, hookError, queue,
                   results, activeCount, workers, sessions, timeouts>>

(* connectToPool rejects: browser and page are null in catch and finally   *)
ConnectFail(t, k) ==
    /\ attempts[t][k].phase = "slot"
    /\ Return(t, k, attempts[t][k], Result(t, FALSE, ConnectError, <<>>))

(* the next action succeeds; after the last one runTest returns            *)
Action(t, k) ==
    LET a == attempts[t][k]
        done == Append(a.actions, TRUE)
    IN  /\ a.phase = "run"
        /\ IF Len(done) = Len(tests[t].actions)
           THEN Return(t, k, [a EXCEPT !.actions = done],
                       Result(t, TRUE, NoError, done))
           ELSE Continue(t, k, [a EXCEPT !.actions = done])

(* the next action fails with its retries exhausted: catch, then finally   *)
ActionFail(t, k) ==
    LET a == attempts[t][k]
        done == Append(a.actions, FALSE)
    IN  /\ a.phase = "run"
        /\ Return(t, k, [a EXCEPT !.actions = done],
                  Result(t, FALSE, ActionError(Len(done)), done))

-----------------------------------------------------------------------------
(* runTestsParallel                                                        *)

(* faulty variant: the queue is the caller's array, not a copy of it       *)
SpawnWorkers_Alias ==
    LET n == Min(concurrency, Len(parallelTests))
    IN  /\ queue' = SubSeq(parallelTests, n + 1, Len(parallelTests))
        /\ activeCount' = n
        /\ workers' = [w \in Workers |->
               IF w \in 1..n
               THEN [st |-> "racing", test |-> parallelTests[w],
                     attempt |-> 1,
                     maxAttempts |-> maxAttempts(tests[parallelTests[w]])]
               ELSE workers[w]]
        /\ attempts' = [t \in Names |-> [k \in Attempts |->
               IF k = 1 /\ \E w \in 1..n : parallelTests[w] = t
               THEN [NoAttempt EXCEPT !.phase = "slot"]
               ELSE attempts[t][k]]]
        /\ pc' = "parallel"
        /\ tests' = SubSeq(tests, n + 1, Len(tests))

(* lines 299-390: partition, then min(concurrency, parallel) calls of      *)
(* worker(), each of which runs synchronously up to the first await of its *)
(* first runTest                                                           *)
SpawnWorkers ==
    LET n == Min(concurrency, Len(parallelTests))
    IN  /\ queue' = SubSeq(parallelTests, n + 1, Len(parallelTests))
        /\ activeCount' = n
        /\ workers' = [w \in Workers |->
               IF w \in 1..n
               THEN [st |-> "racing", test |-> parallelTests[w],
                     attempt |-> 1,
                     maxAttempts |-> maxAttempts(tests[parallelTests[w]])]
               ELSE workers[w]]
        /\ attempts' = [t \in Names |-> [k \in Attempts |->
               IF k = 1 /\ \E w \in 1..n : parallelTests[w] = t
               THEN [NoAttempt EXCEPT !.phase = "slot"]
               ELSE attempts[t][k]]]
        /\ pc' = "parallel"
        /\ tests' = tests

Start ==
    /\ pc = "start"
    /\ IF hooks.beforeAll # <<>>
       THEN /\ pc' = "beforeAllConnect"
            /\ UNCHANGED <<tests, queue, activeCount, workers, attempts>>
       ELSE SpawnWorkers
    /\ UNCHANGED <<unit, config, suiteHooks, hookBrowser, hookRuns, hookError,
                   thrown, results, sessions, timeouts>>

BeforeAllConnect ==
    /\ pc = "beforeAllConnect"
    /\ hookBrowser' = "connected"
    /\ pc' = "beforeAllHook"
    /\ UNCHANGED <<unit, inputs, hookRuns, hookError, thrown, queue, results,
                   activeCount, workers, attempts, sessions, timeouts>>

BeforeAllConnectFail ==
    /\ pc = "beforeAllConnect"
    /\ hookError' = [hookError EXCEPT !.beforeAll = ConnectError]
    /\ thrown' = ConnectError
    /\ pc' = "rejected"
    /\ UNCHANGED <<unit, inputs, hookBrowser, hookRuns, queue, results,
                   activeCount, workers, attempts, sessions, timeouts>>

BeforeAllHook ==
    /\ pc = "beforeAllHook"
    /\ hookRuns' = [hookRuns EXCEPT !.beforeAll = @ + 1]
    /\ hookBrowser' = "disconnected"
    /\ SpawnWorkers
    /\ UNCHANGED <<unit, config, suiteHooks, hookError, thrown, results,
                   sessions, timeouts>>

(* faulty variant: the catch block logs the error and does not rethrow it  *)
BeforeAllHookFail_Swallowed ==
    /\ pc = "beforeAllHook"
    /\ hookRuns' = [hookRuns EXCEPT !.beforeAll = @ + 1]
    /\ hookBrowser' = "disconnected"
    /\ hookError' = [hookError EXCEPT !.beforeAll = HookError]
    /\ SpawnWorkers
    /\ UNCHANGED <<unit, config, suiteHooks, thrown, results, sessions,
                   timeouts>>

BeforeAllHookFail ==
    /\ pc = "beforeAllHook"
    /\ hookRuns' = [hookRuns EXCEPT !.beforeAll = @ + 1]
    /\ hookBrowser' = "disconnected"
    /\ hookError' = [hookError EXCEPT !.beforeAll = HookError]
    /\ thrown' = HookError
    /\ pc' = "rejected"
    /\ UNCHANGED <<unit, inputs, queue, results, activeCount, workers, attempts,
                   sessions, timeouts>>

(* faulty variant: the afterAll block is left out                           *)
EnterAfterAll_Skip ==
    /\ hookBrowser' = "null"
    /\ pc' = "returned"

(* lines 399-423 up to the first await                                     *)
EnterAfterAll ==
    /\ hookBrowser' = "null"
    /\ pc' = IF hooks.afterAll # <<>> THEN "afterAllConnect" ELSE "returned"

(* faulty variant: the workers are not awaited                             *)
AllSettled_NoAwait == TRUE

(* Promise.all(workers) is fulfilled                                       *)
AllSettled == \A w \in Workers : workers[w].st \in {"idle", "done"}

(* faulty variant: the worker of the serial phase does not count its test *)
JoinParallel_Uncounted ==
    /\ pc = "parallel"
    /\ AllSettled
    /\ IF serialTests # <<>>
       THEN LET q == queue \o serialTests
                n == Head(q)
            IN  /\ queue' = Tail(q)
                /\ activeCount' = activeCount
                /\ workers' = [workers EXCEPT ![0] =
                       [st |-> "racing", test |-> n, attempt |-> 1,
                        maxAttempts |-> maxAttempts(tests[n])]]
                /\ attempts' = StartAttempt(attempts, n, 1)
                /\ pc' = "serial"
                /\ UNCHANGED hookBrowser
       ELSE /\ EnterAfterAll
            /\ UNCHANGED <<queue, activeCount, workers, attempts>>
    /\ UNCHANGED <<unit, inputs, hookRuns, hookError, thrown, results, sessions,
                   timeouts>>

(* await Promise.all(workers) resumes                                      *)
JoinParallel ==
    /\ pc = "parallel"
    /\ AllSettled
    /\ IF serialTests # <<>>
       THEN LET q == queue \o serialTests
                n == Head(q)
            IN  /\ queue' = Tail(q)
                /\ activeCount' = activeCount + 1
                /\ workers' = [workers EXCEPT ![0] =
                       [st |-> "racing", test |-> n, attempt |-> 1,
                        maxAttempts |-> maxAttempts(tests[n])]]
                /\ attempts' = StartAttempt(attempts, n, 1)
                /\ pc' = "serial"
                /\ UNCHANGED hookBrowser
       ELSE /\ EnterAfterAll
            /\ UNCHANGED <<queue, activeCount, workers, attempts>>
    /\ UNCHANGED <<unit, inputs, hookRuns, hookError, thrown, results, sessions,
                   timeouts>>

(* await worker() of the serial phase resumes                              *)
JoinSerial ==
    /\ pc = "serial"
    /\ workers[0].st = "done"
    /\ EnterAfterAll
    /\ UNCHANGED <<unit, inputs, hookRuns, hookError, thrown, queue, results,
                   activeCount, workers, attempts, sessions, timeouts>>

AfterAllConnect ==
    /\ pc = "afterAllConnect"
    /\ hookBrowser' = "connected"
    /\ pc' = "afterAllHook"
    /\ UNCHANGED <<unit, inputs, hookRuns, hookError, thrown, queue, results,
                   activeCount, workers, attempts, sessions, timeouts>>

(* the catch block logs the error, run:complete, return results            *)
AfterAllConnectFail ==
    /\ pc = "afterAllConnect"
    /\ hookError' = [hookError EXCEPT !.afterAll = ConnectError]
    /\ pc' = "returned"
    /\ UNCHANGED <<unit, inputs, hookBrowser, hookRuns, thrown, queue, results,
                   activeCount, workers, attempts, sessions, timeouts>>

AfterAllHook ==
    /\ pc = "afterAllHook"
    /\ hookRuns' = [hookRuns EXCEPT !.afterAll = @ + 1]
    /\ hookBrowser' = "disconnected"
    /\ pc' = "returned"
    /\ UNCHANGED <<unit, inputs, hookError, thrown, queue, results, activeCount,
                   workers, attempts, sessions, timeouts>>

(* faulty variant: the catch block of the afterAll hook rethrows            *)
AfterAllHookFail_Rethrown ==
    /\ pc = "afterAllHook"
    /\ hookRuns' = [hookRuns EXCEPT !.afterAll = @ + 1]
    /\ hookBrowser' = "disconnected"
    /\ hookError' = [hookError EXCEPT !.afterAll = HookError]
    /\ thrown' = HookError
    /\ pc' = "rejected"
    /\ UNCHANGED <<unit, inputs, queue, results, activeCount, workers,
                   attempts, sessions, timeouts>>

(* an action of the hook raises: the catch block logs the error, then the  *)
(* finally block, run:complete, return results                             *)
AfterAllHookFail ==
    /\ pc = "afterAllHook"
    /\ hookRuns' = [hookRuns EXCEPT !.afterAll = @ + 1]
    /\ hookBrowser' = "disconnected"
    /\ hookError' = [hookError EXCEPT !.afterAll = HookError]
    /\ pc' = "returned"
    /\ UNCHANGED <<unit, inputs, thrown, queue, results, activeCount, workers,
                   attempts, sessions, timeouts>>

-----------------------------------------------------------------------------

Next ==
    \/ Start
    \/ BeforeAllConnect
    \/ BeforeAllConnectFail
    \/ BeforeAllHook
    \/ BeforeAllHookFail
    \/ JoinParallel
    \/ JoinSerial
    \/ AfterAllConnect
    \/ AfterAllConnectFail
    \/ AfterAllHook
    \/ AfterAllHookFail
    \/ \E w \in Workers : Timeout(w)
    \/ \E w \in Workers : RetryWake(w)
    \/ \E t \in Names, k \in Attempts : Connect(t, k)
    \/ \E t \in Names, k \in Attempts : ConnectFail(t, k)
    \/ \E t \in Names, k \in Attempts : Action(t, k)
    \/ \E t \in Names, k \in Attempts : ActionFail(t, k)

Spec == Init /\ [][Next]_vars

-----------------------------------------------------------------------------
(* The run when no action of a test ever completes: an attempt waits for   *)
(* its browser, gets it or not, and then hangs in its first action, so     *)
(* that runTest never returns.  Every attempt has its own timer and any    *)
(* number of attempts can time out.                                        *)

(* faulty variant: the worker awaits runTest alone and the timer is unheard *)
TimerFires_Unraced(w) ==
    /\ workers[w].st = "racing"
    /\ UNCHANGED vars

(* the timer of the attempt fires and settles the race; the count of      *)
(* Timeout, which bounds that action, is not kept here                     *)
TimerFires(w) ==
    /\ workers[w].st = "racing"
    /\ UNCHANGED <<sessions, timeouts>>
    /\ LET t == workers[w].test
           k == workers[w].attempt
       IN  Settle(w, TimeoutResult(t),
                  [attempts EXCEPT ![t][k].race = "timeout"])

NextHang ==
    \/ Start
    \/ BeforeAllConnect
    \/ BeforeAllConnectFail
    \/ BeforeAllHook
    \/ BeforeAllHookFail
    \/ JoinParallel
    \/ JoinSerial
    \/ AfterAllConnect
    \/ AfterAllConnectFail
    \/ AfterAllHook
    \/ AfterAllHookFail
    \/ \E w \in Workers : TimerFires(w)
    \/ \E w \in Workers : RetryWake(w)
    \/ \E t \in Names, k \in Attempts : Connect(t, k)

(* the continuations of runTestsParallel run, the suite hooks settle and   *)
(* the timers fire (setTimeout of the race, sleep of the retry delay);     *)
(* nothing is assumed about connectToPool                                  *)
SpecHang ==
    /\ Init
    /\ [][NextHang]_vars
    /\ WF_vars(Start)
    /\ WF_vars(BeforeAllConnect \/ BeforeAllConnectFail)
    /\ WF_vars(BeforeAllHook \/ BeforeAllHookFail)
    /\ WF_vars(JoinParallel)
    /\ WF_vars(JoinSerial)
    /\ WF_vars(AfterAllConnect \/ AfterAllConnectFail)
    /\ WF_vars(AfterAllHook \/ AfterAllHookFail)
    /\ \A w \in Workers : WF_vars(TimerFires(w)) /\ WF_vars(RetryWake(w))

-----------------------------------------------------------------------------
(* One worker and one test, with runTest followed await by await: the      *)
(* backpressure gate, the acquisition of browser, context and page, the    *)
(* per-test hooks, the action loop with its action-level retries, the      *)
(* catch and finally blocks.  No timer fires here and nothing else runs.   *)

MaxSteps == 2           \* a test has 0..MaxSteps actions
MaxActionRetries == 1   \* action.retries and config.actionRetries are 0..1

pollIntervalMs == 2000         \* waitForSlot(poolUrl, pollIntervalMs = 2000,
maxWaitMs == 60000             \*             maxWaitMs = 60000)
DefaultActionRetries == 0      \* action.retries ?? config.actionRetries ?? 0

sched == <<main, queue, activeCount, workers, attempts, sessions, timeouts,
           dashboard>>

(* what the pool can answer to a pressure query: a free slot, every slot   *)
(* taken, not available, or no answer at all                               *)
PoolStates == {"free", "full", "busy", "down"}

(* getPoolStatus never rejects: the catch block returns a status too       *)
getPoolStatus(pool) ==
    CASE pool = "free" -> [available |-> TRUE, running |-> 0,
                           maxConcurrent |-> 1, queued |-> 0]
      [] pool = "full" -> [available |-> TRUE, running |-> 1,
                           maxConcurrent |-> 1, queued |-> 1]
      [] pool = "busy" -> [available |-> FALSE, running |-> 1,
                           maxConcurrent |-> 1, queued |-> 1]
      [] pool = "down" -> [available |-> FALSE, running |-> 0,
                           maxConcurrent |-> 0, queued |-> 0,
                           error |-> "fetch failed"]

(* the time a pressure query takes                                         *)
QueryTimes == {0, 1000}

SetupError == <<"setup", 0>>            \* createBrowserContext, newPage, ...

EachHookError(key) == <<key, 0>>        \* an action of a per-test hook raised

UnitActions ==
    {[type |-> "click"]} \cup
    {[type |-> "click", retries |-> r] : r \in 0..MaxActionRetries}

UnitActionLists == UNION {[1..n -> UnitActions] : n \in 0..MaxSteps}

(* test._suiteHooks, set by loadAllSuites                                  *)
TestHookOptions ==
    {Empty,
     "_suiteHooks" :> Empty,
     "_suiteHooks" :> [beforeEach |-> <<[type |-> "click"]>>,
                       afterEach |-> <<>>]}

UnitTests ==
    {[name |-> 1, actions |-> as] @@ h :
        as \in UnitActionLists, h \in TestHookOptions}

UnitHooks ==
    {<<Empty, Empty>>,
     <<"hooks" :> [beforeEach |-> <<[type |-> "goto"]>>],
       [afterEach |-> <<[type |-> "wait"]>>]>>,
     <<"hooks" :> [beforeAll |-> <<[type |-> "goto"]>>,
                   afterAll |-> <<[type |-> "goto"]>>,
                   beforeEach |-> <<[type |-> "goto"]>>,
                   afterEach |-> <<[type |-> "goto"]>>],
       [beforeAll |-> <<[type |-> "wait"]>>, afterAll |-> <<>>,
        beforeEach |-> <<>>, afterEach |-> <<[type |-> "wait"]>>]>>}

UnitConfigs ==
    {[concurrency |-> 1] @@ r @@ a :
        r \in {Empty, "retries" :> 1},
        a \in {Empty, "actionRetries" :> MaxActionRetries}}

(* the locals of the worker (attempt) and of its runTest                   *)
IdleRun ==
    [at |-> "idle", attempt |-> 0, hooks |-> NoHooks,
     elapsed |-> 0, gate |-> "none",
     browser |-> "null", context |-> FALSE, page |-> FALSE,
     i |-> 0, try |-> 0, ran |-> <<>>, errorScreenshot |-> FALSE,
     result |-> NoResult]

InitRunTest ==
    /\ \E t \in UnitTests : tests = <<t>>
    /\ \E c \in UnitConfigs, h \in UnitHooks :
          /\ config = c @@ h[1]
          /\ suiteHooks = h[2]
    /\ pc = "parallel"
    /\ hookBrowser = "null"
    /\ hookRuns = [k \in {"beforeAll", "afterAll"} |-> 0]
    /\ hookError = [k \in {"beforeAll", "afterAll"} |-> NoError]
    /\ queue = <<>>
    /\ results = <<>>
    /\ activeCount = 1
    /\ workers = [w \in Workers |-> IdleWorker]
    /\ attempts = [t \in Names |-> [k \in Attempts |-> NoAttempt]]
    /\ sessions = {}
    /\ thrown = NoError
    /\ timeouts = 0
    /\ rt = IdleRun
    /\ dashboard = NoDashboard

(* const testHooks = test._suiteHooks ? mergeHooks(...) : hooks            *)
testHooks(test) ==
    IF Has(test, "_suiteHooks")
    THEN mergeHooks(ConfigHooks(config), test._suiteHooks)
    ELSE hooks

(* faulty variant: running is not compared with maxConcurrent               *)
HasSlot_AvailableOnly(status) == status.available

(* status.available && status.running < status.maxConcurrent               *)
HasSlot(status) == status.available /\ status.running < status.maxConcurrent

(* waitForSlot has returned: browser = await connectToPool(...)            *)
CallConnect(r, how) == [r EXCEPT !.at = "connectToPool", !.gate = how]

(* faulty variant: the clock is restarted when the deadline is reached     *)
LoopTest_Restart(r) ==
    IF r.elapsed < maxWaitMs
    THEN [r EXCEPT !.at = "waitForSlot"]
    ELSE [r EXCEPT !.at = "waitForSlot", !.elapsed = 0]

(* while (Date.now() - start < maxWaitMs), then the call of getPoolStatus  *)
(* or the fall out of the loop                                             *)
LoopTest(r) ==
    IF r.elapsed < maxWaitMs
    THEN [r EXCEPT !.at = "waitForSlot"]
    ELSE CallConnect(r, "timeout")

(* runTest is called for attempt k and runs up to its first await          *)
BeginRunTest(k) ==
    LoopTest([IdleRun EXCEPT !.attempt = k,
                             !.hooks = testHooks(tests[1]),
                             !.result = Result(tests[1].name, TRUE,
                                               NoError, <<>>)])

(* the worker takes the test and starts its first attempt                  *)
CallRunTest ==
    /\ rt.at = "idle"
    /\ rt' = BeginRunTest(1)
    /\ UNCHANGED <<inputs, sched, results>>

(* getPoolStatus resolves after d ms with the status of the pool           *)
PoolStatus ==
    /\ rt.at = "waitForSlot"
    /\ \E pool \in PoolStates, d \in QueryTimes :
          LET status == getPoolStatus(pool)
              r == [rt EXCEPT !.elapsed = @ + d]
          IN  rt' = IF HasSlot(status)
                    THEN CallConnect(r, pool)
                    ELSE [r EXCEPT !.at = "sleep", !.gate = pool]
    /\ UNCHANGED <<inputs, sched, results>>

(* sleep(pollIntervalMs) is over                                            *)
SlotWake ==
    /\ rt.at = "sleep"
    /\ rt' = LoopTest([rt EXCEPT !.elapsed = @ + pollIntervalMs])
    /\ UNCHANGED <<inputs, sched, results>>

(* faulty variant: config.actionRetries ?? action.retries ?? 0              *)
maxActionRetries_ConfigFirst(action) ==
    IF Has(config, "actionRetries") THEN config.actionRetries
    ELSE IF Has(action, "retries") THEN action.retries
    ELSE DefaultActionRetries

(* action.retries ?? config.actionRetries ?? 0                             *)
maxActionRetries(action) ==
    IF Has(action, "retries") THEN action.retries
    ELSE IF Has(config, "actionRetries") THEN config.actionRetries
    ELSE DefaultActionRetries

(* executeHookActions(page, hooks[key], config) is called                  *)
CallHook(r, key, where) ==
    [r EXCEPT !.at = where, !.ran = Append(@, <<key, 0>>)]

(* executeAction(page, test.actions[i], config) is called                  *)
CallAction(r) ==
    [r EXCEPT !.at = "action", !.ran = Append(@, <<"action", r.i>>)]

(* faulty variant: the browser is disconnected at the end of the try block *)
Returned_TryOnly(r) ==
    [r EXCEPT !.at = "returned",
              !.browser = IF @ # "null" /\ r.result.success
                          THEN "disconnected" ELSE @]

(* end of the finally block: browser.disconnect(), return result           *)
Returned(r) ==
    [r EXCEPT !.at = "returned",
              !.browser = IF @ = "null" THEN "null" ELSE "disconnected"]

(* the finally block up to its await: context.close() when there is one    *)
Finally(r) == IF r.context THEN [r EXCEPT !.at = "close"] ELSE Returned(r)

(* catch block, second half: the error screenshot when there is a page     *)
ErrorShot(r) ==
    IF r.page THEN [r EXCEPT !.at = "errorScreenshot"] ELSE Finally(r)

(* faulty variant: the afterEach hook is run without testing `page`        *)
Catch_NoPageTest(r, err) ==
    LET f == [r EXCEPT !.result.success = FALSE, !.result.error = err]
    IN  IF Len(f.hooks.afterEach) > 0
        THEN CallHook(f, "afterEach", "catchAfterEach")
        ELSE ErrorShot(f)

(* catch block, first half: the result is failed with the error, then the  *)
(* afterEach hook of the failure path when there is a page                 *)
Catch(r, err) ==
    LET f == [r EXCEPT !.result.success = FALSE, !.result.error = err]
    IN  IF f.page /\ Len(f.hooks.afterEach) > 0
        THEN CallHook(f, "afterEach", "catchAfterEach")
        ELSE ErrorShot(f)

(* after the action loop: the afterEach hook of the success path           *)
AfterLoop(r) ==
    IF Len(r.hooks.afterEach) > 0
    THEN CallHook(r, "afterEach", "afterEach")
    ELSE Finally(r)

(* for (let i = 0; i < test.actions.length; i++), first attempt of action i *)
EnterAction(r) ==
    IF r.i <= Len(tests[1].actions)
    THEN CallAction([r EXCEPT !.try = 0])
    ELSE AfterLoop(r)

(* the entry pushed to result.actions for action i                         *)
ActionEntry(r, ok) ==
    [index |-> r.i, success |-> ok] @@
    (IF ok
     THEN (IF r.try > 0 THEN "actionRetries" :> r.try ELSE Empty)
     ELSE (IF maxActionRetries(tests[1].actions[r.i]) > 0
           THEN "actionRetries" :> r.try ELSE Empty))

(* when runTest has returned, the worker tags the result and breaks out of *)
(* the attempt loop or sleeps before the next attempt                      *)
Deliver(r) ==
    LET mx == maxAttempts(tests[1])
        tagged == [r.result EXCEPT !.attempt = r.attempt, !.maxAttempts = mx]
    IN  IF r.at # "returned"
        THEN rt' = r /\ results' = results
        ELSE IF Finished(tagged, r.attempt, mx)
             THEN rt' = [r EXCEPT !.at = "done"]
                  /\ results' = Append(results, tagged)
             ELSE rt' = [r EXCEPT !.at = "retryDelay"]
                  /\ results' = results

(* connectToPool settles                                                   *)
Connected ==
    /\ rt.at = "connectToPool"
    /\ \E ok \in BOOLEAN :
          LET r == [rt EXCEPT !.gate = "none", !.elapsed = 0]
          IN  Deliver(IF ok
                      THEN [r EXCEPT !.browser = "connected",
                                     !.at = "createBrowserContext"]
                      ELSE Catch(r, ConnectError))
    /\ UNCHANGED <<inputs, sched>>

(* browser.createBrowserContext() settles                                  *)
ContextCreated ==
    /\ rt.at = "createBrowserContext"
    /\ \E ok \in BOOLEAN :
          Deliver(IF ok
                  THEN [rt EXCEPT !.context = TRUE, !.at = "newPage"]
                  ELSE Catch(rt, SetupError))
    /\ UNCHANGED <<inputs, sched>>

(* context.newPage() settles                                               *)
PageCreated ==
    /\ rt.at = "newPage"
    /\ \E ok \in BOOLEAN :
          Deliver(IF ok
                  THEN [rt EXCEPT !.page = TRUE, !.at = "setViewport"]
                  ELSE Catch(rt, SetupError))
    /\ UNCHANGED <<inputs, sched>>

(* page.setViewport() settles; then the beforeEach hook or the first action *)
ViewportSet ==
    /\ rt.at = "setViewport"
    /\ \E ok \in BOOLEAN :
          Deliver(IF ~ok THEN Catch(rt, SetupError)
                  ELSE IF Len(rt.hooks.beforeEach) > 0
                       THEN CallHook(rt, "beforeEach", "beforeEach")
                       ELSE EnterAction([rt EXCEPT !.i = 1]))
    /\ UNCHANGED <<inputs, sched>>

(* the beforeEach hook settles                                             *)
BeforeEachDone ==
    /\ rt.at = "beforeEach"
    /\ \E ok \in BOOLEAN :
          Deliver(IF ok
                  THEN EnterAction([rt EXCEPT !.i = 1])
                  ELSE Catch(rt, EachHookError("beforeEach")))
    /\ UNCHANGED <<inputs, sched>>

(* faulty variant: the failed entry is pushed and the loop goes on         *)
ActionDone_NoThrow ==
    /\ rt.at = "action"
    /\ \E ok \in BOOLEAN :
          LET pushed == [rt EXCEPT !.result.actions =
                                       Append(@, ActionEntry(rt, ok))]
              failed == [pushed EXCEPT !.result.success = FALSE,
                                       !.result.error = ActionError(rt.i)]
          IN  Deliver(IF ok
                      THEN EnterAction([pushed EXCEPT !.i = @ + 1])
                      ELSE IF rt.try < maxActionRetries(tests[1].actions[rt.i])
                           THEN [rt EXCEPT !.at = "actionSleep"]
                           ELSE EnterAction([failed EXCEPT !.i = @ + 1]))
    /\ UNCHANGED <<inputs, sched>>

(* executeAction settles for action i: entry and next action, or sleep     *)
(* before the action is tried again, or failed entry and throw             *)
ActionDone ==
    /\ rt.at = "action"
    /\ \E ok \in BOOLEAN :
          LET pushed == [rt EXCEPT !.result.actions =
                                       Append(@, ActionEntry(rt, ok))]
          IN  Deliver(IF ok
                      THEN EnterAction([pushed EXCEPT !.i = @ + 1])
                      ELSE IF rt.try < maxActionRetries(tests[1].actions[rt.i])
                           THEN [rt EXCEPT !.at = "actionSleep"]
                           ELSE Catch(pushed, ActionError(rt.i)))
    /\ UNCHANGED <<inputs, sched>>

(* sleep(actionRetryDelay) is over: the action is executed again           *)
ActionRetry ==
    /\ rt.at = "actionSleep"
    /\ rt' = CallAction([rt EXCEPT !.try = @ + 1])
    /\ UNCHANGED <<inputs, sched, results>>

(* the afterEach hook of the success path settles                          *)
AfterEachDone ==
    /\ rt.at = "afterEach"
    /\ \E ok \in BOOLEAN :
          Deliver(IF ok
                  THEN Finally(rt)
                  ELSE Catch(rt, EachHookError("afterEach")))
    /\ UNCHANGED <<inputs, sched>>

(* faulty variant: an error of the hook replaces the error of the result   *)
CatchAfterEachDone_Unsuppressed ==
    /\ rt.at = "catchAfterEach"
    /\ \E ok \in BOOLEAN :
          Deliver(ErrorShot(IF ok THEN rt
                            ELSE [rt EXCEPT !.result.error =
                                                EachHookError("afterEach")]))
    /\ UNCHANGED <<inputs, sched>>

(* the afterEach hook of the failure path settles; an error is swallowed   *)
CatchAfterEachDone ==
    /\ rt.at = "catchAfterEach"
    /\ \E ok \in BOOLEAN : Deliver(ErrorShot(rt))
    /\ UNCHANGED <<inputs, sched>>

(* page.screenshot of the catch block settles; an error is swallowed       *)
ErrorScreenshotDone ==
    /\ rt.at = "errorScreenshot"
    /\ \E ok \in BOOLEAN :
          Deliver(Finally([rt EXCEPT !.errorScreenshot = ok]))
    /\ UNCHANGED <<inputs, sched>>

(* context.close() settles; an error is swallowed                          *)
ContextClosed ==
    /\ rt.at = "close"
    /\ \E ok \in BOOLEAN : Deliver(Returned(rt))
    /\ UNCHANGED <<inputs, sched>>

(* sleep(config.retryDelay) is over: next attempt                          *)
NextAttempt ==
    /\ rt.at = "retryDelay"
    /\ rt' = BeginRunTest(rt.attempt + 1)
    /\ UNCHANGED <<inputs, sched, results>>

NextRunTest ==
    \/ CallRunTest
    \/ PoolStatus
    \/ SlotWake
    \/ Connected
    \/ ContextCreated
    \/ PageCreated
    \/ ViewportSet
    \/ BeforeEachDone
    \/ ActionDone
    \/ ActionRetry
    \/ AfterEachDone
    \/ CatchAfterEachDone
    \/ ErrorScreenshotDone
    \/ ContextClosed
    \/ NextAttempt

SpecRunTest == InitRunTest /\ [][NextRunTest]_vars

(* a pressure query is answered (getPoolStatus has no await that can hang  *)
(* longer than fetch) and the timer of a sleep fires                       *)
SpecRunTestFair ==
    SpecRunTest /\ WF_vars(PoolStatus) /\ WF_vars(SlotWake)

-----------------------------------------------------------------------------
(* connectToPool of pool.js, called by runTest at line 108, seen await by  *)
(* await in rt: the argument values after the defaults, the attempt of the *)
(* loop, the number of calls of puppeteer.connect, and how the call ended. *)

MaxConnectRetries == 4  \* config.connectRetries is 0..MaxConnectRetries

DefaultConnectRetries == 3     \* retries = 3
DefaultConnectDelay == 2000    \* delay = 2000

ConnectDelays == {0, 500}

ConnectConfigs ==
    {[concurrency |-> 1] @@ r @@ d :
        r \in {Empty} \cup
              {"connectRetries" :> n : n \in 0..MaxConnectRetries},
        d \in {Empty} \cup {"connectRetryDelay" :> ms : ms \in ConnectDelays}}

(* a default parameter takes its default when the argument is undefined    *)
ParamOrDefault(obj, f, def) == IF Has(obj, f) THEN obj[f] ELSE def

IdleConnect ==
    [at |-> "call", retries |-> 0, delay |-> 0, attempt |-> 0, calls |-> 0,
     slept |-> 0, value |-> "none", error |-> NoError]

InitConnect ==
    /\ tests = <<>>
    /\ config \in ConnectConfigs
    /\ suiteHooks = Empty
    /\ pc = "parallel"
    /\ hookBrowser = "null"
    /\ hookRuns = [k \in {"beforeAll", "afterAll"} |-> 0]
    /\ hookError = [k \in {"beforeAll", "afterAll"} |-> NoError]
    /\ queue = <<>>
    /\ results = <<>>
    /\ activeCount = 1
    /\ workers = [w \in Workers |-> IdleWorker]
    /\ attempts = [t \in Names |-> [k \in Attempts |-> NoAttempt]]
    /\ sessions = {}
    /\ thrown = NoError
    /\ timeouts = 0
    /\ rt = IdleConnect
    /\ dashboard = NoDashboard

(* for (let attempt = 1; attempt <= retries; attempt++): the body calls    *)
(* puppeteer.connect; past the loop the function ends without a return     *)
(* statement, which returns undefined                                      *)
ConnectLoop(r, k) ==
    IF k <= r.retries
    THEN [r EXCEPT !.attempt = k, !.calls = @ + 1, !.at = "puppeteer.connect"]
    ELSE [r EXCEPT !.attempt = k, !.at = "returned", !.value = "undefined"]

(* connectToPool(config.poolUrl, config.connectRetries,                    *)
(*               config.connectRetryDelay) runs up to its first await      *)
CallConnectToPool ==
    /\ rt.at = "call"
    /\ rt' = ConnectLoop(
                [rt EXCEPT !.retries = ParamOrDefault(config,
                               "connectRetries", DefaultConnectRetries),
                           !.delay = ParamOrDefault(config,
                               "connectRetryDelay", DefaultConnectDelay)],
                1)
    /\ UNCHANGED <<inputs, sched, results>>

(* puppeteer.connect resolves: return await ...                            *)
ConnectResolves ==
    /\ rt.at = "puppeteer.connect"
    /\ rt' = [rt EXCEPT !.at = "returned", !.value = "browser"]
    /\ UNCHANGED <<inputs, sched, results>>

(* puppeteer.connect rejects: the catch block raises on the last attempt   *)
(* and sleeps otherwise                                                    *)
ConnectRejects ==
    /\ rt.at = "puppeteer.connect"
    /\ rt' = IF rt.attempt = rt.retries
             THEN [rt EXCEPT !.at = "raised", !.error = ConnectError]
             ELSE [rt EXCEPT !.at = "sleep"]
    /\ UNCHANGED <<inputs, sched, results>>

(* await sleep(delay) is over: attempt++ and the loop test                 *)
ConnectSleepOver ==
    /\ rt.at = "sleep"
    /\ rt' = ConnectLoop([rt EXCEPT !.slept = @ + rt.delay], rt.attempt + 1)
    /\ UNCHANGED <<inputs, sched, results>>

(* runTest, lines 108-110: browser = await connectToPool(...), then        *)
(* browser.createBrowserContext(), a TypeError when browser is undefined   *)
CallerResumes ==
    /\ rt.at = "returned"
    /\ rt' = IF rt.value = "browser"
             THEN [rt EXCEPT !.at = "createBrowserContext"]
             ELSE [rt EXCEPT !.at = "catch", !.error = SetupError]
    /\ UNCHANGED <<inputs, sched, results>>

NextConnect ==
    \/ CallConnectToPool
    \/ ConnectResolves
    \/ ConnectRejects
    \/ ConnectSleepOver
    \/ CallerResumes

SpecConnect == InitConnect /\ [][NextConnect]_vars

-----------------------------------------------------------------------------
(* getPoolStatus of pool.js, called by waitForSlot at line 73, seen await  *)
(* by await in rt: the two responses, the parsed bodies, the failure that  *)
(* the try block met, and the status returned or the error raised.         *)

MaxPoolSlots == 2       \* the pool reports 1..MaxPoolSlots slots

(* how a fetch settles: it rejects, or resolves with res.ok true or false  *)
FetchOutcomes == {"rejected", "ok", "notOk"}

Null == [null |-> TRUE]

(* bodies of /pressure: no pressure key, an empty pressure object, and     *)
(* pressure objects with a free slot, with every slot taken, unavailable   *)
PressureBodies ==
    {Empty, [pressure |-> Empty]} \cup
    {[pressure |-> [isAvailable |-> a, running |-> n,
                    maxConcurrent |-> m, queued |-> 0]] :
        a \in BOOLEAN, n \in 0..MaxPoolSlots, m \in 1..MaxPoolSlots}

SessionsBodies == {<<>>, <<"s1">>}

(* obj?.f ?? def, for obj null, or an object with or without the field     *)
Coalesce(obj, f, def) == IF Has(obj, f) THEN obj[f] ELSE def

IdlePoolStatus ==
    [at |-> "call", pressureRes |-> "none", sessionsRes |-> "none",
     pressure |-> Null, sessions |-> <<>>, failure |-> "none",
     status |-> Empty, error |-> NoError]

InitPoolStatus ==
    /\ tests = <<>>
    /\ config = [concurrency |-> 1]
    /\ suiteHooks = Empty
    /\ pc = "parallel"
    /\ hookBrowser = "null"
    /\ hookRuns = [k \in {"beforeAll", "afterAll"} |-> 0]
    /\ hookError = [k \in {"beforeAll", "afterAll"} |-> NoError]
    /\ queue = <<>>
    /\ results = <<>>
    /\ activeCount = 1
    /\ workers = [w \in Workers |-> IdleWorker]
    /\ attempts = [t \in Names |-> [k \in Attempts |-> NoAttempt]]
    /\ sessions = {}
    /\ thrown = NoError
    /\ timeouts = 0
    /\ rt = IdlePoolStatus
    /\ dashboard = NoDashboard

(* faulty variant: the catch block raises the error again                  *)
StatusCatch_Rethrow(r, why) ==
    [r EXCEPT !.at = "raised", !.failure = why,
              !.error = <<"fetch failed", 0>>]

(* catch (error): the status of an unreachable pool                        *)
StatusCatch(r, why) ==
    [r EXCEPT !.at = "returned", !.failure = why,
              !.status = [available |-> FALSE, error |-> "fetch failed",
                          running |-> 0, maxConcurrent |-> 0, queued |-> 0,
                          sessions |-> <<>>]]

(* the return statement of the try block                                   *)
StatusReturn(r) ==
    LET p == Coalesce(r.pressure, "pressure", Null)
    IN  [r EXCEPT !.at = "returned",
                  !.status = [available |-> Coalesce(p, "isAvailable", FALSE),
                              running |-> Coalesce(p, "running", 0),
                              maxConcurrent |-> Coalesce(p, "maxConcurrent", 0),
                              queued |-> Coalesce(p, "queued", 0),
                              sessions |-> r.sessions]]

(* const sessions = sessionsRes.ok ? await sessionsRes.json() : null       *)
ParseSessions(r) ==
    IF r.sessionsRes = "ok" THEN [r EXCEPT !.at = "sessions.json"]
    ELSE StatusReturn(r)

(* const pressure = pressureRes.ok ? await pressureRes.json() : null       *)
ParsePressure(r) ==
    IF r.pressureRes = "ok" THEN [r EXCEPT !.at = "pressure.json"]
    ELSE ParseSessions(r)

(* getPoolStatus(poolUrl) runs up to await Promise.all([fetch, fetch])     *)
CallGetPoolStatus ==
    /\ rt.at = "call"
    /\ rt' = [rt EXCEPT !.at = "fetch"]
    /\ UNCHANGED <<inputs, sched, results>>

(* Promise.all settles: it rejects when one of the requests rejects        *)
FetchSettles ==
    /\ rt.at = "fetch"
    /\ \E p \in FetchOutcomes, s \in FetchOutcomes :
          LET r == [rt EXCEPT !.pressureRes = p, !.sessionsRes = s]
          IN  rt' = IF p = "rejected" \/ s = "rejected"
                    THEN StatusCatch(r, "fetch")
                    ELSE ParsePressure(r)
    /\ UNCHANGED <<inputs, sched, results>>

(* pressureRes.json() settles: the body, or a rejection when it is not     *)
(* JSON                                                                    *)
PressureJson ==
    /\ rt.at = "pressure.json"
    /\ \/ rt' = StatusCatch(rt, "json")
       \/ \E body \in PressureBodies :
             rt' = ParseSessions([rt EXCEPT !.pressure = body])
    /\ UNCHANGED <<inputs, sched, results>>

(* sessionsRes.json() settles                                              *)
SessionsJson ==
    /\ rt.at = "sessions.json"
    /\ \/ rt' = StatusCatch(rt, "json")
       \/ \E body \in SessionsBodies :
             rt' = StatusReturn([rt EXCEPT !.sessions = body])
    /\ UNCHANGED <<inputs, sched, results>>

(* waitForSlot, lines 72-83: the status has a slot and the gate returns,   *)
(* or it has none and the gate sleeps; a raised error returns the gate     *)
GateResumes ==
    /\ rt.at \in {"returned", "raised"}
    /\ rt' = IF rt.at = "raised" THEN [rt EXCEPT !.at = "gateReturn"]
             ELSE IF HasSlot(rt.status) THEN [rt EXCEPT !.at = "gateReturn"]
             ELSE [rt EXCEPT !.at = "gateSleep"]
    /\ UNCHANGED <<inputs, sched, results>>

NextPoolStatus ==
    \/ CallGetPoolStatus
    \/ FetchSettles
    \/ PressureJson
    \/ SessionsJson
    \/ GateResumes

SpecPoolStatus == InitPoolStatus /\ [][NextPoolStatus]_vars

-----------------------------------------------------------------------------
(* The dashboard server: POST /api/run and triggerRun.  One step is the    *)
(* code between two events of the server: the request handler up to its    *)
(* return, the 'end' listener of a request, and the part of triggerRun     *)
(* after its last await.                                                   *)

MaxRequests == 3        \* POST /api/run requests 1..MaxRequests

Requests == 1..MaxRequests

(* let currentRun = null; no request has arrived and no run was triggered  *)
IdleDashboard ==
    [currentRun |-> Null,
     req |-> [i \in Requests |-> "none"],
     run |-> [i \in Requests |-> "none"]]

InitDashboard ==
    /\ tests = <<>>
    /\ config = [concurrency |-> 1]
    /\ suiteHooks = Empty
    /\ pc = "start"
    /\ hookBrowser = "null"
    /\ hookRuns = [k \in {"beforeAll", "afterAll"} |-> 0]
    /\ hookError = [k \in {"beforeAll", "afterAll"} |-> NoError]
    /\ queue = <<>>
    /\ results = <<>>
    /\ activeCount = 0
    /\ workers = [w \in Workers |-> IdleWorker]
    /\ attempts = [t \in Names |-> [k \in Attempts |-> NoAttempt]]
    /\ sessions = {}
    /\ thrown = NoError
    /\ timeouts = 0
    /\ rt = NoRun
    /\ dashboard = IdleDashboard

(* currentRun?.running                                                     *)
IsRunning(d) == Coalesce(d.currentRun, "running", FALSE)

(* the request handler: 409 when a run is in progress, otherwise the       *)
(* 'data' and 'end' listeners are registered and the handler returns       *)
PostRun(i) ==
    /\ dashboard.req[i] = "none"
    /\ dashboard' = IF IsRunning(dashboard)
                    THEN [dashboard EXCEPT !.req[i] = "409"]
                    ELSE [dashboard EXCEPT !.req[i] = "receiving"]
    /\ UNCHANGED <<rt, inputs, main, queue, results, activeCount, workers,
                   attempts, sessions, timeouts>>

(* the 'end' listener of a body over MAX_BODY answers 413                  *)
BodyTooLarge(i) ==
    /\ dashboard.req[i] = "receiving"
    /\ dashboard' = [dashboard EXCEPT !.req[i] = "413"]
    /\ UNCHANGED <<rt, inputs, main, queue, results, activeCount, workers,
                   attempts, sessions, timeouts>>

(* the 'end' listener calls triggerRun(params), which sets currentRun and  *)
(* runs up to its first await, and answers 'started'                       *)
BodyEnd(i) ==
    /\ dashboard.req[i] = "receiving"
    /\ dashboard' = [dashboard EXCEPT !.req[i] = "started",
                                      !.run[i] = "running",
                                      !.currentRun = [running |-> TRUE]]
    /\ UNCHANGED <<rt, inputs, main, queue, results, activeCount, workers,
                   attempts, sessions, timeouts>>

(* the 'end' listener calls triggerRun(params) and the project is not      *)
(* found: the catch block is reached before any await                      *)
BodyEndProjectNotFound(i) ==
    /\ dashboard.req[i] = "receiving"
    /\ dashboard' = [dashboard EXCEPT !.req[i] = "started",
                                      !.run[i] = "error",
                                      !.currentRun = [running |-> FALSE]]
    /\ UNCHANGED <<rt, inputs, main, queue, results, activeCount, workers,
                   attempts, sessions, timeouts>>

(* triggerRun ends: after the report is saved, or in its catch block       *)
RunEnds(i) ==
    /\ dashboard.run[i] = "running"
    /\ \E how \in {"done", "error"} :
          dashboard' = [dashboard EXCEPT !.run[i] = how,
                                         !.currentRun = [running |-> FALSE]]
    /\ UNCHANGED <<rt, inputs, main, queue, results, activeCount, workers,
                   attempts, sessions, timeouts>>

NextDashboard ==
    \E i \in Requests :
        \/ PostRun(i)
        \/ BodyTooLarge(i)
        \/ BodyEnd(i)
        \/ BodyEndProjectNotFound(i)
        \/ RunEnds(i)

SpecDashboard == InitDashboard /\ [][NextDashboard]_vars

-----------------------------------------------------------------------------
(* Properties                                                              *)

Declared == DOMAIN tests

Recorded(t) == {i \in DOMAIN results : results[i].name = t}

Started(t) == {k \in Attempts : attempts[t][k].phase # "none"}

Failed(t, k) == attempts[t][k].race \in {"fail", "timeout"}

(* the retry count of a test as the specification words it: test.retries   *)
(* if set, else config.retries                                             *)
EffectiveRetries(t) ==
    IF "retries" \in DOMAIN tests[t] THEN tests[t].retries
    ELSE IF "retries" \in DOMAIN config THEN config.retries
    ELSE 0

(* the timeout of a test as the specification words it: test.timeout, else *)
(* config.testTimeout                                                      *)
EffectiveTimeout(t) ==
    IF "timeout" \in DOMAIN tests[t] THEN tests[t].timeout
    ELSE IF "testTimeout" \in DOMAIN config THEN config.testTimeout
    ELSE 60000

(* C1: the number of attempts that hold a session (from connectToPool to   *)
(* the disconnect) never exceeds the concurrency limit.                    *)
C1_SessionsWithinConcurrency == Cardinality(sessions) <= config.concurrency

(* C2: when runTestsParallel returns, every input test has exactly one     *)
(* result, none is duplicated or dropped, the queue is empty, and every    *)
(* test was executed whatever the outcome of the others.                   *)
C2_OneResultPerTest ==
    pc = "returned" =>
        /\ Len(results) = Len(tests)
        /\ queue = <<>>
        /\ \A t \in Declared :
              /\ Cardinality(Recorded(t)) = 1
              /\ Started(t) # {}

C2_Witness ==
    /\ pc = "returned"
    /\ Len(tests) = 3
    /\ config.concurrency = 2
    /\ ~results[1].success
    /\ results[1].error[1] = "Test timed out after"
    /\ results[3].success

(* C3: a test with effective retry count r whose every attempt fails is    *)
(* executed exactly r+1 times and has one result with attempt = r+1,       *)
(* maxAttempts = r+1 and success = false.                                  *)
C3_AllAttemptsFail ==
    \A i \in DOMAIN results :
        LET t == results[i].name
            r == EffectiveRetries(t)
        IN  (\A k \in Started(t) : Failed(t, k)) =>
                /\ Cardinality(Started(t)) = r + 1
                /\ results[i].attempt = r + 1
                /\ results[i].maxAttempts = r + 1
                /\ results[i].success = FALSE
                /\ Recorded(t) = {i}

C3_Witness ==
    \E i \in DOMAIN results :
        /\ results[i].success = FALSE
        /\ results[i].attempt = 3
        /\ \A k \in 1..3 : Failed(results[i].name, k)

(* C4: once attempt k of a test succeeds after attempts 1..k-1 failed, the *)
(* result is success = true with attempt = k and no attempt k+1 is ever    *)
(* started for that test.                                                  *)
C4_StopAtFirstSuccess ==
    \A t \in Declared, k \in Attempts :
        (/\ attempts[t][k].race = "pass"
         /\ \A j \in 1..(k - 1) : Failed(t, j)) =>
            /\ \A j \in Attempts : j > k => attempts[t][j].phase = "none"
            /\ \E i \in DOMAIN results :
                  /\ results[i].name = t
                  /\ results[i].success
                  /\ results[i].attempt = k

C4_Witness ==
    \E i \in DOMAIN results :
        /\ results[i].success
        /\ results[i].attempt = 3
        /\ Failed(results[i].name, 1)
        /\ Failed(results[i].name, 2)
        /\ pc = "returned"

(* C5: an attempt whose runTest is unfinished when the timeout elapses     *)
(* gets a failed result with the timeout message, and the worker goes on   *)
(* (next attempt or next test) without waiting for that runTest.           *)
C5_TimeoutFailsAttempt ==
    \A t \in Declared, k \in Attempts :
        attempts[t][k].race = "timeout" =>
            /\ \A w \in Workers : ~Racing(w, t, k)
            /\ IF k = EffectiveRetries(t) + 1
               THEN \E i \in DOMAIN results :
                       /\ results[i].name = t
                       /\ results[i].attempt = k
                       /\ results[i].success = FALSE
                       /\ results[i].error =
                              <<"Test timed out after", EffectiveTimeout(t)>>
                       /\ results[i].actions = <<>>
               ELSE \/ attempts[t][k + 1].phase # "none"
                    \/ \E w \in Workers :
                          /\ workers[w].st = "sleeping"
                          /\ workers[w].test = t
                          /\ workers[w].attempt = k

C5_Witness ==
    \E t \in Declared, k \in Attempts :
        /\ attempts[t][k].race = "timeout"
        /\ attempts[t][k].phase = "run"
        /\ "timeout" \in DOMAIN tests[t]
        /\ Recorded(t) # {}
        /\ \E u \in Declared : u # t /\ Started(u) # {} /\ Recorded(u) # {}

(* C6: after an attempt has timed out it holds no connected session and    *)
(* executes no further action or hook.                                     *)
C6_TimedOutSessionReleased ==
    \A t \in Declared, k \in Attempts :
        attempts[t][k].race = "timeout" =>
            /\ <<t, k>> \notin sessions
            /\ ~attempts[t][k].afterRace

(* C7: in the returned list every result of a serial test comes after      *)
(* every result of a non-serial test, and the serial results are in the    *)
(* order in which the serial tests were declared.                          *)
C7_SerialResultsLast ==
    pc = "returned" =>
        \A i, j \in DOMAIN results :
            (i < j /\ IsSerial(tests[results[i].name])) =>
                /\ IsSerial(tests[results[j].name])
                /\ results[i].name < results[j].name

C7_Witness ==
    /\ pc = "returned"
    /\ Len(results) = 3
    /\ IsSerial(tests[1])
    /\ IsSerial(tests[2])
    /\ ~IsSerial(tests[3])

(* C8: no serial test is queued, dequeued or started before every parallel *)
(* worker has finished and every parallel test has its result.             *)
C8_SerialAfterParallel ==
    \A t \in Declared :
        (/\ IsSerial(tests[t])
         /\ \/ Started(t) # {}
            \/ \E i \in DOMAIN queue : queue[i] = t
            \/ \E w \in Workers : workers[w].test = t) =>
            /\ \A w \in 1..MaxConcurrency : workers[w].st \in {"idle", "done"}
            /\ \A p \in Declared : ~IsSerial(tests[p]) => Recorded(p) # {}

C8_Witness ==
    /\ Len(tests) = 3
    /\ IsSerial(tests[3])
    /\ attempts[3][1].phase = "run"
    /\ workers[1].st = "done"
    /\ workers[2].st = "done"
    /\ \E i \in DOMAIN results : results[i].error[1] = "Test timed out after"
    /\ \E i \in DOMAIN results : results[i].error[1] = "action"

C10_BeforeAllFailureIsFatal ==
    hookError.beforeAll # NoError =>
        /\ pc = "rejected"
        /\ thrown = hookError.beforeAll
        /\ results = <<>>
        /\ queue = <<>>
        /\ activeCount = 0
        /\ \A w \in Workers : workers[w] = IdleWorker
        /\ \A t \in Names : Started(t) = {}
        /\ sessions = {}
        /\ hookRuns.afterAll = 0
        /\ hookBrowser # "connected"

C10_Witness ==
    /\ pc = "rejected"
    /\ thrown = HookError
    /\ hookBrowser = "disconnected"
    /\ Len(tests) = 3

(* C11: when the afterAll hook fails (no session, or an action raises) the *)
(* run still resolves, and every step of the afterAll block leaves the     *)
(* recorded results as they were: same count, order, flags and errors.     *)
C11_AfterAllFailureSuppressed ==
    [][(pc \in {"afterAllConnect", "afterAllHook"}) =>
          (/\ results' = results
           /\ thrown' = NoError
           /\ pc' \in {"afterAllConnect", "afterAllHook", "returned"}
           /\ (hookError'.afterAll # NoError => pc' = "returned"))]_vars

C11_Witness ==
    /\ pc = "returned"
    /\ hookError.afterAll = HookError
    /\ Len(results) = 3
    /\ \E i \in DOMAIN results : results[i].success
    /\ \E i \in DOMAIN results : results[i].error = ConnectError

(* the indexes of the actions executed in the attempt, in execution order  *)
RECURSIVE ActionsOf(_)
ActionsOf(log) ==
    IF log = <<>> THEN <<>>
    ELSE IF Head(log)[1] = "action"
         THEN <<Head(log)[2]>> \o ActionsOf(Tail(log))
         ELSE ActionsOf(Tail(log))

(* C12: within one attempt the actions are executed in declared order, and *)
(* once action i has failed for good no action after i is executed, the    *)
(* outcome list has i entries (i-1 successes, then the failure) and        *)
(* the error of the result is the error of action i.                       *)
C12_ActionsFailFast ==
    LET done == rt.result.actions
        exec == ActionsOf(rt.ran)
    IN  /\ \A n \in DOMAIN exec :
              exec[n] = (IF n = 1 THEN 1 ELSE exec[n - 1])
              \/ exec[n] = (IF n = 1 THEN 1 ELSE exec[n - 1]) + 1
        /\ \A n \in DOMAIN done : done[n].index = n
        /\ \A n \in DOMAIN done :
              ~done[n].success =>
                  /\ Len(done) = n
                  /\ \A m \in 1..(n - 1) : done[m].success
                  /\ \A m \in DOMAIN exec : exec[m] <= n
                  /\ rt.result.success = FALSE
                  /\ rt.result.error = <<"action", n>>

C12_Witness ==
    /\ rt.at = "done"
    /\ Len(tests[1].actions) = 2
    /\ Len(rt.result.actions) = 1
    /\ ~rt.result.actions[1].success
    /\ ActionsOf(rt.ran) = <<1, 1>>
    /\ rt.ran[Len(rt.ran)] = <<"afterEach", 0>>

(* C13: an attempt that is in the backpressure gate, polling or sleeping,  *)
(* always gets to the call of connectToPool, also when every pressure      *)
(* query reports saturation: the gate gives up once maxWaitMs has elapsed. *)
C13_GateNeverBlocks ==
    (rt.at \in {"waitForSlot", "sleep"}) ~> (rt.at = "connectToPool")

C13_Witness ==
    /\ rt.at = "connectToPool"
    /\ rt.gate = "timeout"
    /\ rt.elapsed >= maxWaitMs

(* C14: when a pressure query fails because the pool is unreachable the    *)
(* gate returns at once: it does not sleep and it does not poll again.     *)
C14_UnreachableReturnsAtOnce ==
    rt.at \in {"sleep", "waitForSlot"} => rt.gate # "down"

(* C15: when runTest has returned, whatever the exit path, the browser it  *)
(* acquired is disconnected; a browser is connected only while runTest is  *)
(* between connectToPool and its return.                                   *)
C15_SessionAlwaysReleased ==
    /\ rt.at \in {"retryDelay", "done"} => rt.browser # "connected"
    /\ rt.browser = "connected" =>
           rt.at \in {"createBrowserContext", "newPage", "setViewport",
                      "beforeEach", "action", "actionSleep", "afterEach",
                      "catchAfterEach", "errorScreenshot", "close"}
    /\ (rt.context \/ rt.page) => rt.browser # "null"

C15_Witness ==
    /\ rt.at = "done"
    /\ rt.browser = "disconnected"
    /\ rt.result.error = <<"beforeEach", 0>>
    /\ rt.page
    /\ ~rt.errorScreenshot

(* C16: an attempt that got through its action loop with every action      *)
(* successful and then ran the afterEach hook returns success = true and   *)
(* error = null, whether or not the hook raised.                           *)
C16_AfterEachFailureKeepsSuccess ==
    (/\ rt.at \in {"retryDelay", "done"}
     /\ rt.i = Len(tests[1].actions) + 1
     /\ Len(rt.result.actions) = Len(tests[1].actions)
     /\ \A n \in DOMAIN rt.result.actions : rt.result.actions[n].success
     /\ \E n \in DOMAIN rt.ran : rt.ran[n] = <<"afterEach", 0>>) =>
        /\ rt.result.success
        /\ rt.result.error = NoError

(* C17: no recorded result is failed because a per-test hook (beforeEach   *)
(* or afterEach) raised.                                                   *)
C17_EachHookFailureNotFatal ==
    \A n \in DOMAIN results :
        ~results[n].success =>
            results[n].error[1] \notin {"beforeEach", "afterEach"}

(* C18: an attempt whose connectToPool raised returns at once a failed     *)
(* result with that error and no action entry; no hook and no action was   *)
(* executed and no session is held; the worker retries while attempts      *)
(* remain and records the failure after the last one.                      *)
C18_AcquisitionFailureIsAttemptFailure ==
    rt.result.error = <<"Failed to connect to pool", 0>> =>
        /\ rt.result.success = FALSE
        /\ rt.result.actions = <<>>
        /\ rt.ran = <<>>
        /\ rt.browser = "null"
        /\ ~rt.errorScreenshot
        /\ IF rt.attempt < EffectiveRetries(1) + 1
           THEN rt.at = "retryDelay" /\ Len(results) = 0
           ELSE /\ rt.at = "done"
                /\ Len(results) = 1
                /\ results[1].success = FALSE
                /\ results[1].error = rt.result.error
                /\ results[1].actions = <<>>
                /\ results[1].attempt = rt.attempt

C18_Witness ==
    /\ rt.at = "done"
    /\ rt.attempt = 2
    /\ rt.result.error = ConnectError
    /\ Len(rt.hooks.afterEach) > 0
    /\ Len(tests[1].actions) > 0

(* C19: the run rejects only when the beforeAll hook failed, and then with *)
(* that hook's error; a failed acquisition, action, timeout or afterAll    *)
(* hook is found in a result or in the log, and the run returns one result *)
(* per test.                                                               *)
C19_OnlyBeforeAllRejects ==
    /\ (pc = "rejected" \/ thrown # NoError) =>
           /\ hookError.beforeAll # NoError
           /\ thrown = hookError.beforeAll
           /\ pc = "rejected"
    /\ pc = "returned" => thrown = NoError /\ Len(results) = Len(tests)

C19_Witness ==
    /\ pc = "returned"
    /\ thrown = NoError
    /\ hookError.afterAll # NoError
    /\ \E i \in DOMAIN results : results[i].error = ConnectError
    /\ \E i \in DOMAIN results : results[i].error[1] = "action"
    /\ \E i \in DOMAIN results : results[i].error[1] = "Test timed out after"

(* C20: the hooks an attempt runs with are, key by key, the sequence of    *)
(* the suite (the test's own suite when it carries one) when that sequence *)
(* is non-empty, else the global sequence, else empty; never both.         *)
C20_MergeHooksPerKey ==
    rt.at \notin {"none", "idle"} =>
        LET su == IF "_suiteHooks" \in DOMAIN tests[1]
                  THEN tests[1]._suiteHooks ELSE suiteHooks
            gl == IF "hooks" \in DOMAIN config THEN config.hooks ELSE Empty
        IN  /\ DOMAIN rt.hooks =
                   {"beforeAll", "afterAll", "beforeEach", "afterEach"}
            /\ \A k \in DOMAIN rt.hooks :
                  rt.hooks[k] =
                      IF k \in DOMAIN su /\ su[k] # <<>> THEN su[k]
                      ELSE IF k \in DOMAIN gl THEN gl[k]
                      ELSE <<>>

C20_Witness ==
    /\ rt.at = "done"
    /\ "_suiteHooks" \in DOMAIN tests[1]
    /\ "hooks" \in DOMAIN config
    /\ suiteHooks.afterEach = <<[type |-> "wait"]>>
    /\ rt.hooks.beforeEach = <<[type |-> "click"]>>
    /\ rt.hooks.afterEach = <<[type |-> "goto"]>>
    /\ rt.hooks.beforeAll = <<[type |-> "goto"]>>
    /\ rt.ran # <<>>
    /\ rt.ran[1] = <<"beforeEach", 0>>

(* C21: in the gate, a query answered with a free slot returns at once to  *)
(* the call of connectToPool, without a sleep; a saturated answer is       *)
(* followed by a sleep and, while maxWaitMs has not elapsed, by another    *)
(* query; and no step of the gate acquires a session, executes anything or *)
(* touches the queue, the result or the results.                           *)
C21_GateReturnsOnSlot ==
    [][(rt.at \in {"waitForSlot", "sleep"}) =>
          (/\ rt'.browser = "null" /\ rt'.ran = <<>>
           /\ rt'.result = rt.result /\ rt'.attempt = rt.attempt
           /\ results' = results /\ queue' = queue /\ sessions' = sessions
           /\ (rt.at = "waitForSlot" =>
                  /\ rt'.at \in {"connectToPool", "sleep"}
                  /\ rt'.at = "connectToPool" <=> rt'.gate = "free"
                  /\ rt'.at = "sleep" <=> rt'.gate \in {"full", "busy", "down"})
           /\ (rt.at = "sleep" =>
                  IF rt.elapsed + 2000 < 60000
                  THEN rt'.at = "waitForSlot"
                  ELSE rt'.at = "connectToPool" /\ rt'.gate = "timeout"))]_vars

C21_Witness ==
    /\ rt.at = "connectToPool"
    /\ rt.gate = "free"
    /\ rt.elapsed >= 2 * pollIntervalMs
    /\ rt.attempt = 2

(* how often action i was executed in the attempt                          *)
Executions(i) ==
    Cardinality({n \in DOMAIN rt.ran : rt.ran[n] = <<"action", i>>})

(* the retry count of action i as the specification words it               *)
EffectiveActionRetries(i) ==
    IF "retries" \in DOMAIN tests[1].actions[i] THEN tests[1].actions[i].retries
    ELSE IF "actionRetries" \in DOMAIN config THEN config.actionRetries
    ELSE 0

(* C22: in one attempt action i is executed at most n+1 times (n its       *)
(* effective retry count); an action with an outcome entry has exactly one *)
(* entry, a successful one after k executions that failed (actionRetries   *)
(* = k when k > 0), a failed one only after n+1 executions; an action in   *)
(* progress has no entry; and the retry of an action stays in the same     *)
(* attempt of the test.                                                    *)
C22_ActionRetriesAreLocal ==
    /\ [](rt.at \notin {"none", "idle"} =>
            \A i \in DOMAIN tests[1].actions :
               LET n == EffectiveActionRetries(i)
                   e == {m \in DOMAIN rt.result.actions :
                            rt.result.actions[m].index = i}
               IN  /\ Executions(i) <= n + 1
                   /\ Cardinality(e) <= 1
                   /\ Executions(i) = 0 => e = {}
                   /\ (rt.at \in {"action", "actionSleep"} /\ rt.i = i) => e = {}
                   /\ \A m \in e :
                         LET a == rt.result.actions[m]
                         IN  /\ a.success =>
                                 IF Executions(i) > 1
                                 THEN /\ "actionRetries" \in DOMAIN a
                                      /\ a.actionRetries = Executions(i) - 1
                                 ELSE "actionRetries" \notin DOMAIN a
                             /\ ~a.success => Executions(i) = n + 1)
    /\ [][rt.at = "actionSleep" =>
            (/\ rt'.at = "action" /\ rt'.i = rt.i
             /\ rt'.attempt = rt.attempt /\ results' = results
             /\ rt'.result = rt.result
             /\ rt'.browser = rt.browser)]_vars

C22_Witness ==
    /\ rt.at = "done"
    /\ rt.attempt = 1
    /\ Len(rt.result.actions) = 2
    /\ rt.result.actions[1].success
    /\ "actionRetries" \in DOMAIN rt.result.actions[1]
    /\ rt.result.actions[1].actionRetries = 1
    /\ ~rt.result.actions[2].success
    /\ Executions(2) = 1
    /\ "actionRetries" \in DOMAIN config

(* C23: once an action has failed for good, the afterEach hook (when there *)
(* is one) is run on the still connected session, and neither the outcome  *)
(* of that hook nor the outcome of the error screenshot changes the        *)
(* result: it stays failed with the error of the action.                   *)
C23_FailurePathIsBestEffort ==
    /\ [](rt.result.error[1] = "action" =>
            /\ rt.result.success = FALSE
            /\ Len(rt.result.actions) = rt.result.error[2]
            /\ ~rt.result.actions[Len(rt.result.actions)].success
            /\ rt.at \in {"catchAfterEach", "errorScreenshot", "close",
                          "retryDelay", "done"}
            /\ IF rt.hooks.afterEach # <<>>
               THEN rt.ran[Len(rt.ran)] = <<"afterEach", 0>>
               ELSE rt.ran[Len(rt.ran)][1] = "action"
            /\ rt.at \in {"catchAfterEach", "errorScreenshot"} =>
                   rt.browser = "connected" /\ rt.page)
    /\ [][rt.at \in {"catchAfterEach", "errorScreenshot", "close"} =>
            (/\ rt'.result = rt.result
             /\ rt'.ran = rt.ran
             /\ rt'.at \in {"errorScreenshot", "close", "retryDelay", "done"})]_vars

C23_Witness ==
    /\ rt.at = "done"
    /\ rt.result.error = ActionError(2)
    /\ rt.ran[Len(rt.ran)] = <<"afterEach", 0>>
    /\ ~rt.errorScreenshot
    /\ rt.browser = "disconnected"

(* the suite hook sequence of a run as the specification words it: the     *)
(* suite's when non-empty, else the global one                             *)
SuiteSequence(k) ==
    IF k \in DOMAIN suiteHooks /\ suiteHooks[k] # <<>> THEN suiteHooks[k]
    ELSE IF "hooks" \in DOMAIN config /\ k \in DOMAIN config.hooks
         THEN config.hooks[k]
    ELSE <<>>

C25_RunTerminates == <>(pc \in {"returned", "rejected"})

C25_Witness ==
    /\ pc = "returned"
    /\ Len(results) = 3
    /\ \A i \in DOMAIN results : results[i].error[1] = "Test timed out after"
    /\ \E i \in DOMAIN results : results[i].attempt = 3
    /\ \E t \in Declared, k \in Attempts : attempts[t][k].phase = "run"
    /\ IsSerial(tests[3])

(* the names of the non-serial tests, in the order of the input            *)
RECURSIVE NonSerial(_)
NonSerial(n) ==
    IF n = 0 THEN <<>>
    ELSE IF "serial" \in DOMAIN tests[n] /\ tests[n].serial
         THEN NonSerial(n - 1)
         ELSE Append(NonSerial(n - 1), tests[n].name)

(* the positions, among the non-serial tests, of those taken so far        *)
Taken ==
    {j \in DOMAIN NonSerial(Len(tests)) :
        Started(NonSerial(Len(tests))[j]) # {}}

(* C26: during the parallel phase the tests taken so far are the first n   *)
(* non-serial tests of the input and the queue holds the others in input   *)
(* order; each step that takes one takes the head of the queue.            *)
C26_FifoDequeue ==
    /\ [](pc = "parallel" =>
            /\ Taken = 1..Cardinality(Taken)
            /\ queue = SubSeq(NonSerial(Len(tests)), Cardinality(Taken) + 1,
                              Len(NonSerial(Len(tests)))))
    /\ [][(pc = "parallel" /\ pc' = "parallel" /\ queue' # queue) =>
            (/\ queue' = Tail(queue)
             /\ \E w \in Workers :
                   /\ workers'[w].test = Head(queue)
                   /\ workers'[w].attempt = 1
                   /\ workers'[w].st = "racing")]_vars

C26_Witness ==
    /\ pc = "parallel"
    /\ config.concurrency = 2
    /\ Len(NonSerial(Len(tests))) = 3
    /\ workers[1].test = 1 /\ workers[1].st = "sleeping"
    /\ workers[2].test = 3 /\ workers[2].st = "racing"
    /\ queue = <<>>

(* C27: no step of a run changes the caller's tests (length, order, any    *)
(* field of a test), the config or the suite hooks; the queue is consumed  *)
(* while tests stays whole.                                                *)
C27_InputsUnchanged ==
    [][/\ tests' = tests
       /\ config' = config
       /\ suiteHooks' = suiteHooks
       /\ (queue' # queue => Len(tests') = Len(tests))]_vars

C27_Witness ==
    /\ pc = "returned"
    /\ Len(tests) = 3
    /\ queue = <<>>
    /\ IsSerial(tests[2])
    /\ "retries" \in DOMAIN tests[1]
    /\ \E i \in DOMAIN results : results[i].attempt = 3
    /\ \E i \in DOMAIN results : ~results[i].success

(* the tests that were taken from the queue and have no result yet         *)
InFlight == {t \in Declared : Started(t) # {} /\ Recorded(t) = {}}

(* C28: activeCount is the number of tests taken from the queue that have  *)
(* no result yet; it is within 0..min(concurrency, non-serial tests) in    *)
(* the parallel phase, at most 1 in the serial phase, 0 at the return.     *)
C28_ActiveCountIsInFlight ==
    /\ activeCount = Cardinality(InFlight)
    /\ pc = "parallel" =>
           /\ 0 <= activeCount
           /\ activeCount <= concurrency
           /\ activeCount <= Len(NonSerial(Len(tests)))
    /\ pc = "serial" => activeCount <= 1
    /\ pc = "returned" => activeCount = 0

C28_Witness ==
    /\ pc = "parallel"
    /\ activeCount = 2
    /\ Len(results) = 1
    /\ \E w \in Workers : workers[w].st = "sleeping"
    /\ \E t \in Declared, k \in Attempts : attempts[t][k].race = "timeout"

(* C29: every recorded result has 1 <= attempt <= maxAttempts, with        *)
(* maxAttempts the retry count of its test plus one, and a failed result   *)
(* has attempt = maxAttempts: attempt < maxAttempts implies success.       *)
C29_FailedOnlyWhenExhausted ==
    \A i \in DOMAIN results :
        /\ results[i].maxAttempts = EffectiveRetries(results[i].name) + 1
        /\ 1 <= results[i].attempt
        /\ results[i].attempt <= results[i].maxAttempts
        /\ results[i].attempt < results[i].maxAttempts => results[i].success

C29_Witness ==
    \E i, j \in DOMAIN results :
        /\ results[i].success
        /\ results[i].attempt = 2
        /\ results[i].maxAttempts = 3
        /\ ~results[j].success
        /\ results[j].attempt = results[j].maxAttempts
        /\ results[j].maxAttempts = 2

(* the number of times the afterEach hook ran in the current attempt       *)
AfterEachRuns ==
    Cardinality({n \in DOMAIN rt.ran : rt.ran[n] = <<"afterEach", 0>>})

(* C30: within one attempt of runTest the afterEach hook is executed at    *)
(* most once, whichever path the attempt takes.                            *)
C30_AfterEachAtMostOnce == AfterEachRuns <= 1

(* C31: at most one attempt of a test is executing at any time: while      *)
(* attempt k of a test is executing actions on its session, attempt k+1 of *)
(* that test has not started.                                              *)
C31_OneAttemptAtATime ==
    \A t \in Declared, k \in Attempts :
        (k + 1 \in Attempts /\ attempts[t][k].phase = "run") =>
            attempts[t][k + 1].phase = "none"

(* the result the worker records for a last attempt that timed out         *)
TimedOutFailure(t, k) ==
    [name |-> t, success |-> FALSE,
     error |-> <<"Test timed out after", EffectiveTimeout(t)>>,
     actions |-> <<>>, attempt |-> k, maxAttempts |-> k]

(* C32: the timeout covers the whole attempt: when it elapses while the    *)
(* attempt is still in waitForSlot or connectToPool, the attempt is a      *)
(* timed-out failure with an empty action list (recorded if it is the last *)
(* attempt, retried otherwise) and no session has been acquired for it.    *)
C32_TimeoutCoversAcquisition ==
    [][\A t \in Declared, k \in Attempts :
          (/\ attempts[t][k].phase = "slot"
           /\ attempts[t][k].race = "pending"
           /\ attempts'[t][k].race = "timeout") =>
              (/\ <<t, k>> \notin sessions'
               /\ attempts'[t][k].phase = "slot"
               /\ attempts'[t][k].actions = <<>>
               /\ IF k = EffectiveRetries(t) + 1
                  THEN /\ Len(results') = Len(results) + 1
                       /\ results'[Len(results')] = TimedOutFailure(t, k)
                  ELSE /\ results' = results
                       /\ \E w \in Workers :
                              /\ workers'[w].st = "sleeping"
                              /\ workers'[w].test = t
                              /\ workers'[w].attempt = k)]_vars

C32_Witness ==
    \E i \in DOMAIN results :
        LET t == results[i].name
            k == results[i].attempt
        IN  /\ results[i] = TimedOutFailure(t, k)
            /\ attempts[t][k].phase = "slot"
            /\ attempts[t][k].race = "timeout"
            /\ <<t, k>> \notin sessions

(* Progress events as steps of the model.  test:start is published in the  *)
(* step that takes the test from the queue (Started(t) becomes non-empty), *)
(* test:complete in the step that records its result, run:start in the     *)
(* step that starts the workers, run:complete in the step that returns,    *)
(* test:retry in the step that puts the worker to sleep, and test:action   *)
(* in every step of runTest that settles an action of the test.            *)
EmitsTestAction(t) ==
    \E k \in Attempts :
        /\ attempts[t][k].phase = "run"
        /\ \/ attempts'[t][k].phase = "ended"
           \/ Len(attempts'[t][k].actions) > Len(attempts[t][k].actions)

EmitsTestRetry(t) ==
    \E w \in Workers :
        /\ workers[w].st = "racing"
        /\ workers[w].test = t
        /\ workers'[w].st = "sleeping"

(* C33: lifecycle order of the progress events: test:start precedes the    *)
(* test:action and test:retry events of the test, which precede its        *)
(* test:complete; no test:action of a test follows its test:complete.      *)
C33_EventsInLifecycleOrder ==
    [][\A t \in Declared :
          (EmitsTestAction(t) \/ EmitsTestRetry(t)) =>
              (Started(t) # {} /\ Recorded(t) = {})]_vars

(* the tests that have an invocation of runTest executing on its session   *)
Executing ==
    {t \in Declared : \E k \in Attempts : attempts[t][k].phase = "run"}

(* C34: with concurrency = 1 tests are executed one at a time and the      *)
(* returned results are the non-serial tests in input order followed by    *)
(* the serial tests in input order.                                        *)
C34_SequentialWhenConcurrencyOne ==
    concurrency = 1 =>
        /\ Cardinality(Executing) <= 1
        /\ pc = "returned" =>
               [i \in DOMAIN results |-> results[i].name] =
                   parallelTests \o serialTests

(* C35: connectToPool makes at most `retries` connection attempts, stops   *)
(* at the first success, and either returns a live session or raises       *)
(* 'Failed to connect to pool': it never returns without a session.        *)
C35_ConnectReturnsSessionOrRaises ==
    /\ rt.at # "call" => rt.calls <= rt.retries
    /\ rt.at = "returned" => rt.value = "browser"
    /\ rt.at = "raised" => rt.error = ConnectError

RunsInProgress == {i \in Requests : dashboard.run[i] = "running"}

(* C37: the dashboard runs at most one triggered run at a time: triggerRun *)
(* is never started while another triggerRun is in progress, a request     *)
(* that arrives during a run is answered 409, and currentRun.running is    *)
(* true exactly while a run is in progress.                                *)
C37_OneRunAtATime ==
    /\ Cardinality(RunsInProgress) <= 1
    /\ IsRunning(dashboard) <=> RunsInProgress # {}

====
